---- MODULE Spec2Model ----
(***************************************************************************)
(* A model of ulab's linalg.c: transpose, reshape, inv, dot, eye and det   *)
(* over a row-major matrix handle (ndarray_obj_t: m rows, n columns, a     *)
(* typed buffer array->items).                                             *)
(*                                                                         *)
(* Numbers.  An element of an integer-typed buffer is an integer; a float  *)
(* is a rational <<num, den>> in lowest terms with den > 0, and <<0, 0>>   *)
(* stands for a non-finite float (the result of a division by zero).       *)
(* Float arithmetic is exact on these rationals: binary32 rounding is not  *)
(* modelled.                                                               *)
(* C indices are 0-based; items[idx + 1] is the element at C index idx.    *)
(***************************************************************************)
EXTENDS Integers, Sequences, FiniteSets, TLC

VARIABLES self, out, err, ub, op, arg, pre, acc, pivot

vars == <<self, out, err, ub, op, arg, pre, acc, pivot>>

(***************************************************************************)
(* Bounds of the model.                                                    *)
(***************************************************************************)
\* largest row or column count of a handle of the general specification
MaxDim == 3
\* largest order N of the square matrices of the elimination specification
MaxN == 2

(***************************************************************************)
(* Widths of the C integer types the code stores its arguments in.         *)
(***************************************************************************)
\* uint16_t m, n in linalg_reshape; int16_t k in linalg_eye
TwoTo16 == 65536
\* the int that m*n is computed in after integer promotion
INT_MAX == 2147483647

(***************************************************************************)
(* Rational arithmetic (the float type).                                   *)
(***************************************************************************)
Abs(x) == IF x < 0 THEN -x ELSE x

RECURSIVE GCD(_, _)
GCD(a, b) == IF b = 0 THEN a ELSE GCD(b, a % b)

NonFinite == <<0, 0>>

Rat(num, den) ==
    IF den = 0 THEN NonFinite
    ELSE LET g == GCD(Abs(num), Abs(den))
             s == IF den < 0 THEN -1 ELSE 1
         IN  <<s * (num \div g), s * (den \div g)>>

IsFinite(x) == x[2] # 0

RatAdd(x, y) == IF IsFinite(x) /\ IsFinite(y)
                THEN Rat(x[1] * y[2] + y[1] * x[2], x[2] * y[2]) ELSE NonFinite
RatSub(x, y) == IF IsFinite(x) /\ IsFinite(y)
                THEN Rat(x[1] * y[2] - y[1] * x[2], x[2] * y[2]) ELSE NonFinite
RatMul(x, y) == IF IsFinite(x) /\ IsFinite(y)
                THEN Rat(x[1] * y[1], x[2] * y[2]) ELSE NonFinite
RatDiv(x, y) == IF IsFinite(x) /\ IsFinite(y)
                THEN Rat(x[1] * y[2], x[2] * y[1]) ELSE NonFinite
RatLess(x, y) == IsFinite(x) /\ IsFinite(y) /\ x[1] * y[2] < y[1] * x[2]
RatAbs(x) == <<Abs(x[1]), x[2]>>

RatZero == <<0, 1>>
RatOne == <<1, 1>>

\* the conversion of a float to int: the fractional part is discarded
FloatToInt(x) == IF x[1] < 0 THEN -((-x[1]) \div x[2]) ELSE x[1] \div x[2]
\* the conversion of an int to float
IntToFloat(i) == <<i, 1>>

(***************************************************************************)
(* The typed buffer.                                                       *)
(***************************************************************************)
NDARRAY_UINT8 == "B"
NDARRAY_INT8 == "b"
NDARRAY_UINT16 == "H"
NDARRAY_INT16 == "h"
NDARRAY_FLOAT == "f"

mp_binary_get_size(typecode) ==
    CASE typecode \in {NDARRAY_UINT8, NDARRAY_INT8} -> 1
      [] typecode \in {NDARRAY_UINT16, NDARRAY_INT16} -> 2
      [] OTHER -> 4

\* the element a typed write stores for the small integer object v
mp_binary_set_val(typecode, v) ==
    IF typecode = NDARRAY_FLOAT THEN IntToFloat(v) ELSE v

\* what a read finds in memory that was never written or is not the buffer's
Garbage(typecode) == mp_binary_set_val(typecode, -99)

\* the promoted read of the element at C index idx; g is what the read
\* returns when idx is outside the buffer
ndarray_get_float_value(items, typecode, idx, g) ==
    IF idx + 1 \in DOMAIN items
    THEN IF typecode = NDARRAY_FLOAT THEN items[idx + 1] ELSE IntToFloat(items[idx + 1])
    ELSE g

\* a new m x n handle whose buffer is all zero
create_new_ndarray(m, n, typecode) ==
    [m |-> m, n |-> n, typecode |-> typecode,
     items |-> [i \in 1..(m * n) |-> mp_binary_set_val(typecode, 0)]]

\* the handle standing for "no handle"
NoHandle == [m |-> 0, n |-> 0, typecode |-> NDARRAY_UINT8, items |-> <<>>]

(***************************************************************************)
(* Bytes.  Byte b of the encoding of element value v is [val, off]; the    *)
(* encoding itself stays abstract.  A byte never written has init = FALSE. *)
(***************************************************************************)
ByteImage(items, sz) ==
    [a \in 1..(Len(items) * sz) |->
        [val |-> items[((a - 1) \div sz) + 1], off |-> (a - 1) % sz, init |-> TRUE]]

UninitBytes(len, typecode) ==
    [a \in 1..len |-> [val |-> Garbage(typecode), off |-> 0, init |-> FALSE]]

\* the element that sz consecutive bytes decode to
ElementOf(bytes, idx, sz, typecode) ==
    LET b0 == bytes[idx * sz + 1]
    IN  IF \A b \in 0..(sz - 1) :
               /\ bytes[idx * sz + b + 1].init
               /\ bytes[idx * sz + b + 1].off = b
               /\ bytes[idx * sz + b + 1].val = b0.val
        THEN b0.val
        ELSE Garbage(typecode)

FromBytes(bytes, sz, typecode) ==
    [i \in 1..(Len(bytes) \div sz) |-> ElementOf(bytes, i - 1, sz, typecode)]

\* memcpy(dst + doff, src + soff, len); a byte outside either buffer is
\* not copied and the call is an out-of-bounds access
memcpy(dst, doff, src, soff, len) ==
    [a \in DOMAIN dst |->
        IF a - 1 >= doff /\ a - 1 < doff + len /\ (a - 1 - doff + soff + 1) \in DOMAIN src
        THEN src[a - 1 - doff + soff + 1]
        ELSE dst[a]]

memcpy_oob(dst, doff, src, soff, len) ==
    \E b \in 0..(len - 1) : (doff + b + 1) \notin DOMAIN dst \/ (soff + b + 1) \notin DOMAIN src

(***************************************************************************)
(* linalg_transpose                                                        *)
(***************************************************************************)
\* a plausible slip: the destination computed with the column count
transpose_dst_n(h, m, n) == n * h.n + m

\* byte-free element index the memcpy of line 44 writes to
transpose_dst(h, m, n) == n * h.m + m

\* element index the memcpy of line 44 reads from
transpose_src(h, m, n) == m * h.n + n

\* the two nested loops of lines 42-46, flattened: t = m * self->n + n
RECURSIVE transpose_loop(_, _, _, _)
transpose_loop(h, c, tmp, t) ==
    IF t = h.m * h.n THEN [tmp |-> tmp, ub |-> FALSE]
    ELSE LET m == t \div h.n
             n == t % h.n
             sz == mp_binary_get_size(h.typecode)
             doff == sz * transpose_dst(h, m, n)
             soff == sz * transpose_src(h, m, n)
             rest == transpose_loop(h, c, memcpy(tmp, doff, c, soff, sz), t + 1)
         IN  [tmp |-> rest.tmp, ub |-> rest.ub \/ memcpy_oob(tmp, doff, c, soff, sz)]

linalg_transpose(h) ==
    LET sz == mp_binary_get_size(h.typecode)
        bytes == Len(h.items) * sz
    IN  IF h.m # 1 /\ h.n # 1
        THEN LET c == ByteImage(h.items, sz)
                 r == transpose_loop(h, c, UninitBytes(bytes, h.typecode), 0)
                 copied == memcpy(c, 0, r.tmp, 0, bytes)
             IN  [self |-> [h EXCEPT !.items = FromBytes(copied, sz, h.typecode),
                                     !.m = h.n, !.n = h.m],
                  ub |-> r.ub]
        ELSE [self |-> [h EXCEPT !.m = h.n, !.n = h.m], ub |-> FALSE]

(***************************************************************************)
(* Errors.  The code raises ValueError or TypeError with a message; the    *)
(* error kinds are named after what the message reports.                   *)
(***************************************************************************)
OK == "OK"
\* "shape must be a 2-tuple"
InvalidArgument == "InvalidArgument"
\* "cannot reshape array (incompatible input/output shape)",
\* "only square matrices can be inverted", "input must be square matrix",
\* "matrix dimensions do not match"
ShapeMismatch == "ShapeMismatch"
\* "input matrix is singular", "singular matrix"
SingularMatrix == "SingularMatrix"

(***************************************************************************)
(* linalg_reshape.  A shape argument is [tuple, items]: whether the object *)
(* is a tuple, and its integer items.                                      *)
(***************************************************************************)
\* the assignment of an mp_int_t to a uint16_t
ToUint16(x) == x % TwoTo16

\* m*n != self->m*self->n, m and n promoted to int.  A product above
\* INT_MAX wraps to a negative int (it is below 2^32), which converted to
\* size_t is at least 2^31 and so differs from every element count here.
reshape_differs(m, n, h) ==
    IF m # 0 /\ n > INT_MAX \div m THEN TRUE ELSE m * n # h.m * h.n

linalg_reshape(h, shape) ==
    IF ~shape.tuple \/ Len(shape.items) # 2
    THEN [self |-> h, err |-> InvalidArgument]
    ELSE LET m == ToUint16(shape.items[1])
             n == ToUint16(shape.items[2])
         IN  IF reshape_differs(m, n, h)
             THEN [self |-> h, err |-> ShapeMismatch]
             ELSE [self |-> [h EXCEPT !.m = m, !.n = n], err |-> OK]

(***************************************************************************)
(* linalg_invert_matrix and linalg_inv                                     *)
(***************************************************************************)
\* the fixed threshold of the pivot test, 1e-6
epsilon == <<1, 1000000>>

\* abs(x) < epsilon: abs is the integer function of stdlib.h, so its float
\* argument is converted to int first.  (The conversion of a non-finite
\* float is taken to give 0.)
abs(x) == IF IsFinite(x) THEN Abs(FloatToInt(x)) ELSE 0

pivot_below_epsilon(x) == RatLess(IntToFloat(abs(x)), epsilon)

\* lines 99-102 and 281-283: row n -= elem * row m, for all columns k
row_subtract(d, N, m, n, elem) ==
    [i \in DOMAIN d |->
        IF (i - 1) \div N = n
        THEN RatSub(d[i], RatMul(elem, d[N * m + ((i - 1) % N) + 1]))
        ELSE d[i]]

\* line 98
invert_elem(data, N, m, n) == RatDiv(data[N * n + m + 1], data[m * (N + 1) + 1])

\* lines 96-104: the loop over the rows n, for pivot row m
RECURSIVE invert_rows(_, _, _, _)
invert_rows(du, N, m, n) ==
    IF n = N THEN du
    ELSE IF m # n
         THEN LET elem == invert_elem(du.data, N, m, n)
              IN  invert_rows([data |-> row_subtract(du.data, N, m, n, elem),
                               unit |-> row_subtract(du.unit, N, m, n, elem)],
                              N, m, n + 1)
         ELSE invert_rows(du, N, m, n + 1)

\* lines 90-105: the loop over the pivot rows m
RECURSIVE invert_pivots(_, _, _)
invert_pivots(du, N, m) ==
    IF m = N THEN [ok |-> TRUE, data |-> du.data, unit |-> du.unit, pivot |-> RatOne, step |-> N]
    ELSE IF pivot_below_epsilon(du.data[m * (N + 1) + 1])
         THEN [ok |-> FALSE, data |-> du.data, unit |-> du.unit,
               pivot |-> du.data[m * (N + 1) + 1], step |-> m]
         ELSE invert_pivots(invert_rows(du, N, m, 0), N, m + 1)

\* lines 106-112: each row divided by its diagonal element
invert_normalise(d, diag, N) ==
    [i \in DOMAIN d |-> RatDiv(d[i], diag[((i - 1) \div N) * (N + 1) + 1])]

\* returns ok, the contents of data afterwards, and on a failed pivot test
\* the pivot that failed it and its step
linalg_invert_matrix(data, N) ==
    LET unit == [i \in 1..(N * N) |->
                    IF (i - 1) % (N + 1) = 0 THEN RatOne ELSE RatZero]
        r == invert_pivots([data |-> data, unit |-> unit], N, 0)
    IN  IF ~r.ok
        THEN [ok |-> FALSE, data |-> r.data, pivot |-> r.pivot, step |-> r.step]
        ELSE [ok |-> TRUE, data |-> invert_normalise(r.unit, r.data, N),
              pivot |-> r.pivot, step |-> r.step]

\* a scalar or an absent result, as a handle-shaped record
NoOut == [kind |-> "none", m |-> 0, n |-> 0, typecode |-> NDARRAY_FLOAT, items |-> <<>>]
Scalar(x) == [kind |-> "scalar", m |-> 1, n |-> 1, typecode |-> NDARRAY_FLOAT, items |-> <<x>>]
Result(h) == [kind |-> "handle", m |-> h.m, n |-> h.n, typecode |-> h.typecode, items |-> h.items]

\* lines 133-140, 269-271: every element promoted into a float buffer
promote(o) ==
    [i \in 1..Len(o.items) |-> ndarray_get_float_value(o.items, o.typecode, i - 1, RatZero)]

\* a plausible slip: the elimination runs on the input's own buffer
linalg_inv_inplace(o) ==
    IF o.m # o.n
    THEN [self |-> o, out |-> NoOut, err |-> ShapeMismatch, pivot |-> RatOne, step |-> 0]
    ELSE LET r == linalg_invert_matrix(promote(o), o.m)
             after == [o EXCEPT !.typecode = NDARRAY_FLOAT, !.items = r.data]
         IN  IF ~r.ok
             THEN [self |-> after, out |-> NoOut, err |-> SingularMatrix,
                   pivot |-> r.pivot, step |-> r.step]
             ELSE [self |-> after, out |-> Result(after), err |-> OK,
                   pivot |-> r.pivot, step |-> r.step]

linalg_inv(o) ==
    IF o.m # o.n
    THEN [self |-> o, out |-> NoOut, err |-> ShapeMismatch, pivot |-> RatOne, step |-> 0]
    ELSE LET inverted == create_new_ndarray(o.m, o.n, NDARRAY_FLOAT)
             r == linalg_invert_matrix(promote(o), o.m)
         IN  IF ~r.ok
             THEN [self |-> o, out |-> NoOut, err |-> SingularMatrix,
                   pivot |-> r.pivot, step |-> r.step]
             ELSE [self |-> o, out |-> Result([inverted EXCEPT !.items = r.data]),
                   err |-> OK, pivot |-> r.pivot, step |-> r.step]

(***************************************************************************)
(* linalg_det                                                              *)
(***************************************************************************)
\* a plausible slip: the factor read from the transposed position
det_c_transposed(tmp, N, m, n) == RatDiv(tmp[N * m + n + 1], tmp[m * (N + 1) + 1])

\* line 280
det_c(tmp, N, m, n) == RatDiv(tmp[N * n + m + 1], tmp[m * (N + 1) + 1])

\* lines 278-285
RECURSIVE det_rows(_, _, _, _)
det_rows(tmp, N, m, n) ==
    IF n = N THEN tmp
    ELSE IF m # n
         THEN det_rows(row_subtract(tmp, N, m, n, det_c(tmp, N, m, n)), N, m, n + 1)
         ELSE det_rows(tmp, N, m, n + 1)

\* lines 273-286: pivot rows m < in->m - 1
RECURSIVE det_pivots(_, _, _)
det_pivots(tmp, N, m) ==
    IF m >= N - 1 THEN [ok |-> TRUE, tmp |-> tmp, pivot |-> RatOne, step |-> m]
    ELSE IF pivot_below_epsilon(tmp[m * (N + 1) + 1])
         THEN [ok |-> FALSE, tmp |-> tmp, pivot |-> tmp[m * (N + 1) + 1], step |-> m]
         ELSE det_pivots(det_rows(tmp, N, m, 0), N, m + 1)

\* lines 287-291
RECURSIVE det_product(_, _, _)
det_product(tmp, N, m) ==
    IF m = N THEN RatOne
    ELSE RatMul(tmp[m * (N + 1) + 1], det_product(tmp, N, m + 1))

linalg_det(in) ==
    IF in.m # in.n
    THEN [self |-> in, out |-> NoOut, err |-> ShapeMismatch, pivot |-> RatOne, step |-> 0]
    ELSE LET r == det_pivots(promote(in), in.n, 0)
         IN  IF ~r.ok
             THEN [self |-> in, out |-> NoOut, err |-> SingularMatrix,
                   pivot |-> r.pivot, step |-> r.step]
             ELSE [self |-> in, out |-> Scalar(det_product(r.tmp, in.n, 0)), err |-> OK,
                   pivot |-> r.pivot, step |-> r.step]

(***************************************************************************)
(* linalg_dot.  An element read outside a buffer returns g; a write        *)
(* outside the result's buffer is not kept in the result.                  *)
(***************************************************************************)
\* the bounds of the three loops, lines 161, 162 and 164
dot_i_bound(m1, m2) == m1.n
dot_j_bound(m1, m2) == m2.m
dot_k_bound(m1, m2) == m1.m

\* the indices of lines 166, 167 and 170
dot_idx1(m1, i, k) == i * m1.n + k
dot_idx2(m2, k, j) == k * m2.n + j
dot_out_idx(m1, i, j) == i * m1.m + j

\* lines 163-169
RECURSIVE dot_sum(_, _, _, _, _, _)
dot_sum(m1, m2, i, j, k, g) ==
    IF k = dot_k_bound(m1, m2) THEN RatZero
    ELSE LET v1 == ndarray_get_float_value(m1.items, m1.typecode, dot_idx1(m1, i, k), g)
             v2 == ndarray_get_float_value(m2.items, m2.typecode, dot_idx2(m2, k, j), g)
         IN  RatAdd(RatMul(v1, v2), dot_sum(m1, m2, i, j, k + 1, g))

\* lines 161-172, the loops over i and j flattened: t = i * m2->m + j
RECURSIVE dot_loop(_, _, _, _, _)
dot_loop(m1, m2, outdata, t, g) ==
    IF dot_j_bound(m1, m2) = 0 \/ t = dot_i_bound(m1, m2) * dot_j_bound(m1, m2) THEN outdata
    ELSE LET i == t \div dot_j_bound(m1, m2)
             j == t % dot_j_bound(m1, m2)
             w == dot_out_idx(m1, i, j)
             sum == dot_sum(m1, m2, i, j, 0, g)
         IN  dot_loop(m1, m2,
                      IF w + 1 \in DOMAIN outdata THEN [outdata EXCEPT ![w + 1] = sum]
                      ELSE outdata,
                      t + 1, g)

NoAcc == [r1 |-> {}, r2 |-> {}, w |-> {}]

\* the element indices the loops read from m1 and m2 and write to the result
dot_accesses(m1, m2) ==
    LET I == 0..(dot_i_bound(m1, m2) - 1)
        J == 0..(dot_j_bound(m1, m2) - 1)
        K == 0..(dot_k_bound(m1, m2) - 1)
    IN  [r1 |-> IF J = {} THEN {} ELSE {dot_idx1(m1, i, k) : i \in I, k \in K},
         r2 |-> IF I = {} THEN {} ELSE {dot_idx2(m2, k, j) : k \in K, j \in J},
         w  |-> {dot_out_idx(m1, i, j) : i \in I, j \in J}]

OutOfBounds(idxs, len) == \E idx \in idxs : idx < 0 \/ idx >= len

linalg_dot(m1, m2, g) ==
    IF m1.n # m2.m
    THEN [out |-> NoOut, err |-> ShapeMismatch, acc |-> NoAcc, ub |-> FALSE]
    ELSE LET new == create_new_ndarray(m1.m, m2.n, NDARRAY_FLOAT)
             a == dot_accesses(m1, m2)
         IN  [out |-> Result([new EXCEPT !.items = dot_loop(m1, m2, new.items, 0, g)]),
              err |-> OK,
              acc |-> a,
              ub |-> \/ OutOfBounds(a.r1, Len(m1.items))
                     \/ OutOfBounds(a.r2, Len(m2.items))
                     \/ OutOfBounds(a.w, Len(new.items))]

(***************************************************************************)
(* linalg_eye                                                              *)
(***************************************************************************)
\* the assignment of an mp_int_t to an int16_t
ToInt16(x) == ((x + (TwoTo16 \div 2)) % TwoTo16) - (TwoTo16 \div 2)

\* lines 242-246: writes at i*n+k while k < n
RECURSIVE eye_upper(_, _, _, _, _)
eye_upper(items, typecode, n, k, i) ==
    IF ~(k < n) THEN [items |-> items, w |-> {}]
    ELSE LET idx == i * n + k
             rest == eye_upper(IF idx + 1 \in DOMAIN items
                               THEN [items EXCEPT ![idx + 1] = mp_binary_set_val(typecode, 1)]
                               ELSE items,
                               typecode, n, k + 1, i + 1)
         IN  [items |-> rest.items, w |-> rest.w \cup {idx}]

\* lines 250-254: writes at k*n+i while k < m
RECURSIVE eye_lower(_, _, _, _, _, _)
eye_lower(items, typecode, m, n, k, i) ==
    IF ~(k < m) THEN [items |-> items, w |-> {}]
    ELSE LET idx == k * n + i
             rest == eye_lower(IF idx + 1 \in DOMAIN items
                               THEN [items EXCEPT ![idx + 1] = mp_binary_set_val(typecode, 1)]
                               ELSE items,
                               typecode, m, n, k + 1, i + 1)
         IN  [items |-> rest.items, w |-> rest.w \cup {idx}]

\* a is [n, hasM, M, k, dtype]: the positional n and the keywords M
\* (hasM is FALSE when M is None), k and dtype
linalg_eye(a) ==
    LET n == a.n
        m == IF a.hasM THEN a.M ELSE n
        k == ToInt16(a.k)
        ndarray == create_new_ndarray(m, n, a.dtype)
        r == IF k >= 0 /\ k < n THEN eye_upper(ndarray.items, a.dtype, n, k, 0)
             ELSE IF k < 0 /\ -k < m THEN eye_lower(ndarray.items, a.dtype, m, n, -k, 0)
             ELSE [items |-> ndarray.items, w |-> {}]
    IN  [self |-> [ndarray EXCEPT !.items = r.items],
         acc |-> [r1 |-> {}, r2 |-> {}, w |-> r.w],
         ub |-> OutOfBounds(r.w, Len(ndarray.items))]

(***************************************************************************)
(* Inputs.                                                                 *)
(***************************************************************************)
Typecodes == {NDARRAY_UINT8, NDARRAY_INT8, NDARRAY_UINT16, NDARRAY_INT16, NDARRAY_FLOAT}

\* a buffer of len consecutive numbers from seed: all elements differ
Ramp(seed, len, typecode) == [i \in 1..len |-> mp_binary_set_val(typecode, seed + i - 1)]

RampHandle(m, n, typecode, seed) ==
    [m |-> m, n |-> n, typecode |-> typecode, items |-> Ramp(seed, m * n, typecode)]

\* the handles the general specification starts from
Handles == {RampHandle(m, n, tc, seed) : m \in 1..MaxDim, n \in 1..MaxDim,
                                         tc \in Typecodes, seed \in {0, 1}}

\* the second operands of dot
Operands == {RampHandle(m, n, NDARRAY_INT16, 2) : m \in 1..MaxDim, n \in 1..MaxDim}

\* the integers a shape may hold: in range, beyond 16 bits, and negative
ShapeInts == (0..(MaxDim * MaxDim))
             \cup {TwoTo16 + v : v \in 1..MaxDim}
             \cup {v - TwoTo16 : v \in 1..MaxDim}
             \cup {-1, TwoTo16 - 1}

Shapes == {[tuple |-> TRUE, items |-> <<a, b>>] : a \in ShapeInts, b \in ShapeInts}
          \cup {[tuple |-> TRUE, items |-> <<>>], [tuple |-> TRUE, items |-> <<1>>],
                [tuple |-> TRUE, items |-> <<1, 1, 1>>], [tuple |-> FALSE, items |-> <<1, 1>>]}

\* the offsets k of eye: around the matrix, and beyond 16 bits
Offsets == (-(MaxDim + 1)..(MaxDim + 1)) \cup {TwoTo16, TwoTo16 + 1, 1 - TwoTo16}

EyeArgs == {[n |-> n, hasM |-> M # 0, M |-> M, k |-> k, dtype |-> dtype] :
                n \in 1..MaxDim, M \in 0..MaxDim, k \in Offsets,
                dtype \in {NDARRAY_FLOAT, NDARRAY_UINT8}}

\* what an out-of-bounds read may return
GarbageReads == {RatZero, <<7, 1>>}

\* the element values of the elimination specification
Vals == {<<-2, 1>>, RatZero, <<1, 2>>, RatOne}

\* the square float matrix of order N with the elements it
SquareHandle(N, it) == [m |-> N, n |-> N, typecode |-> NDARRAY_FLOAT, items |-> it]

(***************************************************************************)
(* The state: the handle self the caller holds, and of the call that has   *)
(* just returned its name op ("idle" between calls), its arguments arg,    *)
(* the handle pre it was entered with, its result out, its error err, the  *)
(* element indices acc it accessed, whether it accessed memory out of      *)
(* bounds (ub), and the pivot that failed the pivot test.  After an        *)
(* out-of-bounds access nothing more is modelled.                          *)
(***************************************************************************)
NoShape == [tuple |-> FALSE, items |-> <<>>]
NoEye == [n |-> 0, hasM |-> FALSE, M |-> 0, k |-> 0, dtype |-> NDARRAY_FLOAT]
NoArg == [shape |-> NoShape, other |-> NoHandle, g |-> RatZero, eye |-> NoEye]
NoPivot == [value |-> RatOne, step |-> 0]

InitCall ==
    /\ out = NoOut
    /\ err = OK
    /\ ub = FALSE
    /\ op = "idle"
    /\ arg = NoArg
    /\ pre = NoHandle
    /\ acc = NoAcc
    /\ pivot = NoPivot

Init == self \in Handles /\ InitCall

\* the square float matrices over Vals, and the 2 x 2 example
\* [[1, 2], [3, 4]] as unsigned bytes
InitElim ==
    /\ \/ \E N \in 1..MaxN : \E it \in [1..(N * N) -> Vals] : self = SquareHandle(N, it)
       \/ self = RampHandle(2, 2, NDARRAY_UINT8, 1)
    /\ InitCall

\* self.transpose()
Transpose ==
    /\ op = "idle"
    /\ \E r \in {linalg_transpose(self)} :
           /\ self' = r.self
           /\ ub' = r.ub
    /\ out' = NoOut
    /\ err' = OK
    /\ op' = "transpose"
    /\ arg' = NoArg
    /\ pre' = self
    /\ acc' = NoAcc
    /\ pivot' = NoPivot

\* self.reshape(shape)
Reshape ==
    /\ op = "idle"
    /\ \E shape \in Shapes :
          \E r \in {linalg_reshape(self, shape)} :
              /\ self' = r.self
              /\ err' = r.err
              /\ out' = IF r.err = OK THEN Result(r.self) ELSE NoOut
              /\ arg' = [NoArg EXCEPT !.shape = shape]
    /\ ub' = FALSE
    /\ op' = "reshape"
    /\ pre' = self
    /\ acc' = NoAcc
    /\ pivot' = NoPivot

\* inv(self)
Inv ==
    /\ op = "idle"
    /\ \E r \in {linalg_inv(self)} :
           /\ self' = r.self
           /\ out' = r.out
           /\ err' = r.err
           /\ pivot' = [value |-> r.pivot, step |-> r.step]
    /\ ub' = FALSE
    /\ op' = "inv"
    /\ arg' = NoArg
    /\ pre' = self
    /\ acc' = NoAcc

\* det(self)
Det ==
    /\ op = "idle"
    /\ \E r \in {linalg_det(self)} :
           /\ self' = r.self
           /\ out' = r.out
           /\ err' = r.err
           /\ pivot' = [value |-> r.pivot, step |-> r.step]
    /\ ub' = FALSE
    /\ op' = "det"
    /\ arg' = NoArg
    /\ pre' = self
    /\ acc' = NoAcc

\* dot(self, other)
Dot ==
    /\ op = "idle"
    /\ \E other \in Operands :
       \E g \in (IF linalg_dot(self, other, RatZero).ub THEN GarbageReads ELSE {RatZero}) :
          \E r \in {linalg_dot(self, other, g)} :
              /\ out' = r.out
              /\ err' = r.err
              /\ acc' = r.acc
              /\ ub' = r.ub
              /\ arg' = [NoArg EXCEPT !.other = other, !.g = g]
    /\ op' = "dot"
    /\ pre' = self
    /\ pivot' = NoPivot
    /\ UNCHANGED self

\* self = eye(n, M=M, k=k, dtype=dtype)
Eye ==
    /\ op = "idle"
    /\ \E a \in EyeArgs :
          \E r \in {linalg_eye(a)} :
              /\ self' = r.self
              /\ out' = Result(r.self)
              /\ acc' = r.acc
              /\ ub' = r.ub
              /\ arg' = [NoArg EXCEPT !.eye = a]
    /\ err' = OK
    /\ op' = "eye"
    /\ pre' = NoHandle
    /\ pivot' = NoPivot

\* the caller takes the result of the call; the record of the call is dropped
Continue ==
    /\ op # "idle"
    /\ ~ub
    /\ out' = NoOut
    /\ err' = OK
    /\ ub' = FALSE
    /\ op' = "idle"
    /\ arg' = NoArg
    /\ pre' = NoHandle
    /\ acc' = NoAcc
    /\ pivot' = NoPivot
    /\ UNCHANGED self

Next == Transpose \/ Reshape \/ Inv \/ Det \/ Dot \/ Eye \/ Continue

Spec == Init /\ [][Next]_vars

NextElim == Inv \/ Det \/ Continue

SpecElim == InitElim /\ [][NextElim]_vars

(***************************************************************************)
(* Mathematics the contracts are stated in, independent of the code.       *)
(***************************************************************************)
\* the promoted element at row i, column j of a handle read row-major
At(h, i, j) == ndarray_get_float_value(h.items, h.typecode, i * h.n + j, RatZero)

\* sum over k in lo..hi-1 of A[i,k] * B[k,j]
RECURSIVE InnerProduct(_, _, _, _, _, _)
InnerProduct(A, B, i, j, lo, hi) ==
    IF lo >= hi THEN RatZero
    ELSE RatAdd(RatMul(At(A, i, lo), At(B, lo, j)), InnerProduct(A, B, i, j, lo + 1, hi))

\* the determinant of the rows r..N-1 and the columns cols of the N x N
\* matrix h, by expansion along row r
RECURSIVE Minor(_, _, _)
RECURSIVE MinorSum(_, _, _, _)
MinorSum(h, r, cols, todo) ==
    IF todo = {} THEN RatZero
    ELSE LET c == CHOOSE x \in todo : TRUE
             before == Cardinality({d \in cols : d < c})
             term == RatMul(At(h, r, c), Minor(h, r + 1, cols \ {c}))
         IN  RatAdd(IF before % 2 = 0 THEN term ELSE RatSub(RatZero, term),
                    MinorSum(h, r, cols, todo \ {c}))
Minor(h, r, cols) == IF cols = {} THEN RatOne ELSE MinorSum(h, r, cols, cols)

Determinant(h) == Minor(h, 0, 0..(h.n - 1))

IsIdentity(h) ==
    \A i \in 0..(h.m - 1), j \in 0..(h.n - 1) : At(h, i, j) = IF i = j THEN RatOne ELSE RatZero

\* whether m * n = count, without forming a product beyond the model's integers
SameCount(m, n, count) ==
    IF m = 0 THEN count = 0 ELSE count % m = 0 /\ count \div m = n

(***************************************************************************)
(* Properties.                                                             *)
(***************************************************************************)

\* C1: dot(A, B) of A (p x q) and B (q x r) returns a p x r matrix whose
\* element at linear index i*r + j is the sum over k of A[i,k] * B[k,j].
DotContract ==
    (op = "dot" /\ pre.n = arg.other.m) =>
        /\ err = OK
        /\ ~ub
        /\ out.m = pre.m /\ out.n = arg.other.n
        /\ Len(out.items) = pre.m * arg.other.n
        /\ \A i \in 0..(pre.m - 1), j \in 0..(arg.other.n - 1) :
               out.items[i * arg.other.n + j + 1] = InnerProduct(pre, arg.other, i, j, 0, pre.n)

\* the rows of eye(n, M, k)
EyeRows == IF arg.eye.hasM THEN arg.eye.M ELSE arg.eye.n

\* C2: eye(n, M, k) returns an M-row by n-column matrix whose element at
\* (r, c) is 1 exactly when c = r + k and 0 elsewhere, for every integer k
\* and also when M differs from n, without an error.
EyeContract ==
    op = "eye" =>
        /\ err = OK
        /\ ~ub
        /\ self.m = EyeRows /\ self.n = arg.eye.n
        /\ Len(self.items) = EyeRows * arg.eye.n
        /\ \A r \in 0..(EyeRows - 1), c \in 0..(arg.eye.n - 1) :
               self.items[r * arg.eye.n + c + 1] =
                   mp_binary_set_val(arg.eye.dtype, IF c = r + arg.eye.k THEN 1 ELSE 0)

\* C3: transpose of a handle with dimensions (m, n) leaves it with
\* dimensions (n, m) and the value that was at linear index i*n + j at
\* linear index j*m + i; for a vector no element is moved.
TransposeContract ==
    op = "transpose" =>
        /\ ~ub
        /\ self.m = pre.n /\ self.n = pre.m
        /\ self.typecode = pre.typecode
        /\ Len(self.items) = Len(pre.items)
        /\ \A i \in 0..(pre.m - 1), j \in 0..(pre.n - 1) :
               self.items[j * pre.m + i + 1] = pre.items[i * pre.n + j + 1]
        /\ (pre.m = 1 \/ pre.n = 1) => self.items = pre.items

\* a 2 x 3 matrix of two-byte elements has been transposed
TransposeWitness ==
    /\ op = "transpose"
    /\ pre.m = 2 /\ pre.n = 3 /\ pre.typecode = NDARRAY_INT16
    /\ self.m = 3 /\ self.n = 2
    /\ self.items # pre.items

\* C4: for a shape (m', n') of non-negative integers reshape succeeds if
\* and only if m'*n' = m*n; on success the dimensions are exactly (m', n')
\* and the buffer is unchanged; otherwise it fails with ShapeMismatch and
\* the dimensions stay (m, n).
ReshapeContract ==
    (/\ op = "reshape"
     /\ arg.shape.tuple /\ Len(arg.shape.items) = 2
     /\ arg.shape.items[1] >= 0 /\ arg.shape.items[2] >= 0) =>
        LET same == SameCount(arg.shape.items[1], arg.shape.items[2], pre.m * pre.n)
        IN  /\ (err = OK) <=> same
            /\ same => /\ self.m = arg.shape.items[1]
                       /\ self.n = arg.shape.items[2]
                       /\ self.items = pre.items
            /\ ~same => err = ShapeMismatch /\ self = pre

\* the shape is a 2-element sequence of non-negative integers that fit the
\* 16 bits they are held in
WellFormedShape(shape) ==
    /\ shape.tuple
    /\ Len(shape.items) = 2
    /\ \A i \in 1..2 : shape.items[i] >= 0 /\ shape.items[i] < TwoTo16

\* C8: a shape that is not a 2-element sequence of non-negative integers,
\* in particular one with a negative component or a component that does
\* not fit the integer width holding it, is never accepted and never
\* changes the declared dimensions.
ReshapeRejects ==
    (op = "reshape" /\ ~WellFormedShape(arg.shape)) =>
        /\ err # OK
        /\ self.m = pre.m /\ self.n = pre.n

\* C5: for every non-singular square matrix A, invert(A) succeeds and
\* dot(A, invert(A)) is the identity.
InvertContract ==
    (op = "inv" /\ pre.m = pre.n /\ Determinant(pre) # RatZero) =>
        /\ err = OK
        /\ out.m = pre.m /\ out.n = pre.n
        /\ \A i \in 0..(pre.m - 1), j \in 0..(pre.n - 1) :
               InnerProduct(pre, out, i, j, 0, pre.n) = IF i = j THEN RatOne ELSE RatZero

\* C6: whenever determinant returns a value for a square matrix, the value
\* is the determinant of the input; it is 1 for an identity matrix, -2 for
\* [[1, 2], [3, 4]] and the sole element when N = 1.
DetContract ==
    (op = "det" /\ err = OK) =>
        /\ pre.m = pre.n
        /\ out = Scalar(Determinant(pre))
        /\ IsIdentity(pre) => out = Scalar(RatOne)
        /\ pre = RampHandle(2, 2, NDARRAY_UINT8, 1) => out = Scalar(<<-2, 1>>)
        /\ pre.n = 1 => out = Scalar(At(pre, 0, 0))

\* determinant has returned a value for a 2 x 2 matrix that is not
\* triangular, after a row operation with a fractional factor
DetWitness ==
    /\ op = "det" /\ err = OK
    /\ pre.n = 2
    /\ At(pre, 0, 0) = <<-2, 1>> /\ At(pre, 0, 1) = RatOne /\ At(pre, 1, 0) = RatOne
    /\ out = Scalar(RatSub(RatMul(<<-2, 1>>, At(pre, 1, 1)), RatOne))

\* C7: whenever reshape, invert, dot or determinant fails, the input handle
\* has the same dimensions and buffer contents as before the call.
FailureFrame ==
    (op \in {"reshape", "inv", "dot", "det"} /\ err # OK) => self = pre

\* an inversion has failed on a pivot after row operations were performed
FailureWitness ==
    /\ op = "inv" /\ err = SingularMatrix
    /\ pivot.step > 0
    /\ self = pre

\* C9: the elimination of invert and determinant aborts with
\* SingularMatrix at a pivot step only if the magnitude of the diagonal
\* entry is below epsilon; a pivot of magnitude at least epsilon, such as
\* a fractional one, never causes the failure.
PivotTest ==
    (op \in {"inv", "det"} /\ err = SingularMatrix) =>
        RatLess(RatAbs(pivot.value), epsilon)

\* C10: every element index dot and eye read or write lies inside the
\* buffer it addresses, for all shapes.
IndexSafety ==
    /\ (op = "dot" /\ err = OK) =>
           /\ \A idx \in acc.r1 : idx < pre.m * pre.n
           /\ \A idx \in acc.r2 : idx < arg.other.m * arg.other.n
           /\ \A idx \in acc.w : idx < pre.m * arg.other.n
    /\ op = "eye" => \A idx \in acc.w : idx < EyeRows * arg.eye.n

====
